---- MODULE Spec2Model ----
(***************************************************************************)
(* A model of gifmaker.py: the time code utilities, the input classifier  *)
(* and the pipeline of main() (frame folders, loose images, videos).      *)
(* Python strings are sequences of one-character strings; None is a value *)
(* that no string equals.                                                  *)
(***************************************************************************)
EXTENDS Integers, Sequences, FiniteSets, TLC

\* ------------------------------------------------------------------ bounds
\* Longest string of the exhaustive part of the time code inputs.
MaxLen == 7
\* Largest number of command-line arguments of a run.
MaxArgs == 3
\* Largest number of frame files one extraction writes.
MaxFrames == 2
\* A number of frames of a long extraction, past the four digits of the
\* frame file pattern.
LongFrames == 10000

\* ----------------------------------------------------------------- strings
None == <<"None">>

Digits == {"0", "1", "2", "3", "4", "5", "6", "7", "8", "9"}

\* Python truthiness of a str-or-None value: None and "" are falsy.
Truthy(s) == s # None /\ s # <<>>

\* str.lower() on the characters the inputs use.
LowerChar(c) ==
    CASE c = "P" -> "p" [] c = "N" -> "n" [] c = "G" -> "g"
      [] c = "M" -> "m" [] c = "K" -> "k" [] c = "V" -> "v"
      [] OTHER -> c

lower(s) == [i \in 1..Len(s) |-> LowerChar(s[i])]

endswith(s, suffix) ==
    /\ Len(suffix) <= Len(s)
    /\ SubSeq(s, Len(s) - Len(suffix) + 1, Len(s)) = suffix

Indexes(s, c) == {i \in 1..Len(s) : s[i] = c}

Min(S) == CHOOSE x \in S : \A y \in S : x <= y
Max(S) == CHOOSE x \in S : \A y \in S : x >= y

\* str.split(c): one part more than there are separators.
RECURSIVE split(_, _)
split(s, c) ==
    IF Indexes(s, c) = {} THEN <<s>>
    ELSE LET i == Min(Indexes(s, c))
         IN  <<SubSeq(s, 1, i - 1)>> \o split(SubSeq(s, i + 1, Len(s)), c)

\* str.rsplit(c, 1): cut at the last separator only.
rsplit1(s, c) ==
    IF Indexes(s, c) = {} THEN <<s>>
    ELSE LET i == Max(Indexes(s, c))
         IN  <<SubSeq(s, 1, i - 1), SubSeq(s, i + 1, Len(s))>>

\* sep.join(parts)
RECURSIVE join(_, _)
join(sep, parts) ==
    IF Len(parts) = 0 THEN <<>>
    ELSE IF Len(parts) = 1 THEN parts[1]
    ELSE parts[1] \o sep \o join(sep, Tail(parts))

\* str.replace(c, ''): every occurrence of the character removed.
RECURSIVE remove(_, _)
remove(s, c) ==
    IF s = <<>> THEN <<>>
    ELSE IF Head(s) = c THEN remove(Tail(s), c)
    ELSE <<Head(s)>> \o remove(Tail(s), c)

\* ------------------------------------------------------ time code utilities
\* The pattern of validate_time_format, item by item: a class ("d" is \d, any
\* other value is that literal character) repeated lo..hi times.
TimePattern ==
    << [cls |-> "d", lo |-> 1, hi |-> 2], [cls |-> ":", lo |-> 1, hi |-> 1],
       [cls |-> "d", lo |-> 1, hi |-> 2], [cls |-> ":", lo |-> 1, hi |-> 1],
       [cls |-> "d", lo |-> 1, hi |-> 2], [cls |-> ":", lo |-> 1, hi |-> 1],
       [cls |-> "d", lo |-> 1, hi |-> 3] >>

ItemMatches(cls, c) == IF cls = "d" THEN c \in Digits ELSE c = cls

\* The positions a regex item can end at when it starts at position p.
ItemEnds(s, p, item) ==
    {q \in (p + item.lo)..(p + item.hi) :
        /\ q <= Len(s) + 1
        /\ \A i \in p..(q - 1) : ItemMatches(item.cls, s[i])}

\* The positions the pattern's items k.. can end at, starting from any of P.
RECURSIVE PatternEnds(_, _, _, _)
PatternEnds(pattern, s, P, k) ==
    IF k > Len(pattern) THEN P
    ELSE PatternEnds(pattern, s,
                     UNION {ItemEnds(s, p, pattern[k]) : p \in P}, k + 1)

\* re.fullmatch: the pattern ends exactly at the end of the string.
re_fullmatch(pattern, s) == (Len(s) + 1) \in PatternEnds(pattern, s, {1}, 1)

\* re.match: the pattern ends anywhere (a prefix matches).
re_match(pattern, s) == PatternEnds(pattern, s, {1}, 1) # {}

validate_time_format_prefix(time_str) == re_match(TimePattern, time_str)

validate_time_format(time_str) == re_fullmatch(TimePattern, time_str)

convert_time_format_all(time_str) ==
    IF Len(split(time_str, ":")) = 4
    THEN join(<<".">>, split(time_str, ":"))
    ELSE time_str

convert_time_format(time_str) ==
    IF Len(split(time_str, ":")) = 4
    THEN join(<<".">>, rsplit1(time_str, ":"))
    ELSE time_str

\* A call's result: the exception it raised ("" for none) and its value.
Returned(v) == [exc |-> "", val |-> v]
Raised(e) == [exc |-> e, val |-> None]

\* None has no attribute replace: a None argument raises AttributeError.
make_smpte_filename_safe(start_time, end_time) ==
    IF start_time = None \/ end_time = None THEN Raised("AttributeError")
    ELSE Returned(remove(start_time, ":") \o <<"-">> \o remove(end_time, ":"))

\* One iteration of get_input's loop on the line the user typed: a blank line
\* returns None, a valid line returns it, any other line prompts again.
\* The validation function is passed by reference: here, by its name.
Call(function, argument) ==
    CASE function = "validate_time_format" -> validate_time_format(argument)

get_input(user_input, validation_function) ==
    IF user_input = <<>> THEN [returned |-> TRUE, val |-> None]
    ELSE IF Call(validation_function, user_input)
         THEN [returned |-> TRUE, val |-> user_input]
         ELSE [returned |-> FALSE, val |-> None]

get_start_time(user_input) == get_input(user_input, "validate_time_format")

get_end_time(user_input) == get_input(user_input, "validate_time_format")

\* ------------------------------------------------------------ file system
\* The paths a run can be given, and the names inside the directories.
DirC == <<"c">>
DirCSlash == <<"c", "/">>
DirE == <<"e">>
DirSrt == <<"d", ".", "s", "r", "t">>
VidA == <<"a", ".", "m", "p", "4">>
VidB == <<"b", ".", "M", "K", "V">>
SubA == <<"a", ".", "s", "r", "t">>
SubB == <<"b", ".", "a", "s", "s">>
ImgX == <<"x", ".", "p", "n", "g">>
ImgY == <<"y", ".", "P", "N", "G">>
TxtN == <<"n", ".", "t", "x", "t">>
Png1 == <<"1", ".", "p", "n", "g">>
Png2 == <<"2", ".", "p", "n", "g">>
Png3 == <<"3", ".", "P", "N", "G">>
SubS == <<"s">>
SubT == <<"t">>

ArgPaths == {DirC, DirCSlash, DirE, DirSrt, VidA, VidB, SubA, SubB,
             ImgX, ImgY, TxtN}

\* The directory a path names: a trailing separator names the same directory.
Normal(p) ==
    IF Len(p) > 1 /\ p[Len(p)] = "/" THEN SubSeq(p, 1, Len(p) - 1) ELSE p

\* The directories that exist, each with its files and its subdirectories.
Tree ==
    (DirC :> [files |-> <<Png1, Png2>>, dirs |-> <<SubS>>])
    @@ (DirC \o <<"/">> \o SubS :> [files |-> <<Png3>>, dirs |-> <<>>])
    @@ (DirE :> [files |-> <<TxtN>>, dirs |-> <<SubT>>])
    @@ (DirE \o <<"/">> \o SubT :> [files |-> <<Png1>>, dirs |-> <<SubS>>])
    @@ (DirE \o <<"/">> \o SubT \o <<"/">> \o SubS :>
            [files |-> <<TxtN>>, dirs |-> <<SubT>>])
    @@ (DirE \o <<"/">> \o SubT \o <<"/">> \o SubS \o <<"/">> \o SubT :>
            [files |-> <<Png2>>, dirs |-> <<>>])
    @@ (DirSrt :> [files |-> <<>>, dirs |-> <<>>])

os_path_isdir(p) == Normal(p) \in DOMAIN Tree

os_path_join(a, b) ==
    IF a = <<>> THEN b
    ELSE IF a[Len(a)] = "/" THEN a \o b
    ELSE a \o <<"/">> \o b

\* os.path.basename: what follows the last separator (nothing, if the path
\* ends with one).
os_path_basename(p) ==
    IF Indexes(p, "/") = {} THEN p
    ELSE SubSeq(p, Max(Indexes(p, "/")) + 1, Len(p))

\* os.path.splitext(p)[0] of a base name: cut at the last period, unless only
\* periods come before it.
splitext_root(p) ==
    LET dots == {i \in Indexes(p, ".") : \E j \in 1..(i - 1) : p[j] # "."}
    IN  IF dots = {} THEN p ELSE SubSeq(p, 1, Max(dots) - 1)

os_listdir(folder) == Tree[Normal(folder)].files \o Tree[Normal(folder)].dirs

\* os.walk(top), top-down: the folder, then each subdirectory's walk.
RECURSIVE os_walk(_)
RECURSIVE WalkEach(_, _)
os_walk(top) ==
    <<[root |-> top, files |-> Tree[Normal(top)].files]>>
    \o WalkEach(top, Tree[Normal(top)].dirs)
WalkEach(top, dirs) ==
    IF dirs = <<>> THEN <<>>
    ELSE os_walk(os_path_join(top, Head(dirs))) \o WalkEach(top, Tail(dirs))

\* --------------------------------------------------------- input classifier
is_image(file_name) == endswith(lower(file_name), <<"p", "n", "g">>)

is_video(file_name) ==
    \/ endswith(lower(file_name), <<"m", "k", "v">>)
    \/ endswith(lower(file_name), <<"m", "p", "4">>)
    \/ endswith(lower(file_name), <<"w", "e", "b", "m">>)

is_subtitle(file_name) ==
    \/ endswith(lower(file_name), <<"s", "r", "t">>)
    \/ endswith(lower(file_name), <<"a", "s", "s">>)

Count(seq, P(_)) == Cardinality({i \in 1..Len(seq) : P(seq[i])})

contains_single_video_and_subtitle(files) ==
    LET video_count == Count(files, is_video)
        IsSubOnly(f) == ~is_video(f) /\ is_subtitle(f)
        subtitle_count == Count(files, IsSubOnly)
    IN  video_count = 1 /\ subtitle_count = 1

RECURSIVE Flatten(_)
Flatten(seqs) == IF seqs = <<>> THEN <<>> ELSE Head(seqs) \o Flatten(Tail(seqs))

HasImage(entry) == \E i \in 1..Len(entry.files) : is_image(entry.files[i])

find_png_folders_top(directories) ==
    LET walked == [i \in 1..Len(directories) |->
                      [root |-> directories[i],
                       files |-> Tree[Normal(directories[i])].files]]
        hits == SelectSeq(walked, HasImage)
    IN  [i \in 1..Len(hits) |-> hits[i].root]

find_png_folders(directories) ==
    LET walked == Flatten([i \in 1..Len(directories) |-> os_walk(directories[i])])
        hits == SelectSeq(walked, HasImage)
    IN  [i \in 1..Len(hits) |-> hits[i].root]

\* ------------------------------------------------------------- the adapters
\* The names main() can call at module level: the functions the file defines
\* (its def statements).
ModuleFunctions ==
    {"is_software_in_path", "make_smpte_filename_safe", "get_video_properties",
     "args_checker", "determine_desktop", "is_image", "is_video", "is_subtitle",
     "contains_single_video_and_subtitle", "find_png_folders",
     "convert_time_format", "extract_frames_with_ffmpeg", "convert_to_gif",
     "get_input", "validate_time_format", "validate_file_name",
     "validate_number", "validate_fps", "validate_quality",
     "contains_only_files", "get_start_time", "get_end_time",
     "get_output_width", "get_output_fps", "get_output_quality", "main"}

\* The helper of line 849, which the file does not define: it queries the
\* duration of the same video again and returns the container duration.
get_video_duration(container_duration) == container_duration

\* Looking a global name up: a name the module does not define raises NameError.
NameDefined(name) == name \in ModuleFunctions

\* determine_desktop(): the user's desktop directory.
desktop == <<"D">>

\* The prompts for width, fps and quality, left blank: the defaults.
get_output_width == <<"5", "1", "2">>
get_output_fps == <<"1", "2">>
get_output_quality == <<"1", "0", "0">>

\* An entry of the run's log of external effects.
Event(ev, path) ==
    [ev |-> ev, path |-> path, ss |-> None, copyts |-> FALSE, to |-> None,
     vf |-> <<>>, files |-> <<>>, out |-> None, res |-> 0, exc |-> "",
     mode |-> ""]

\* The ffmpeg command extract_frames_with_ffmpeg builds from its parameters.
extract_frames_with_ffmpeg(video, output_fps, folder, start_time, end_time, subtitle_file) ==
    LET withss == Truthy(start_time)
        withto == Truthy(end_time)
        subs == IF Truthy(subtitle_file)
                THEN <<[stage |-> "subtitles", arg |-> subtitle_file]>>
                ELSE <<>>
    IN  [Event("extract", video) EXCEPT
            !.ss = IF withss THEN convert_time_format(start_time) ELSE None,
            !.copyts = withss,
            !.to = IF withto THEN convert_time_format(end_time) ELSE None,
            !.vf = subs \o <<[stage |-> "fps,scale", arg |-> output_fps]>>,
            !.out = folder]

\* The gifski command convert_to_gif builds.
convert_to_gif(input_files, output_file) ==
    [Event("encode", None) EXCEPT !.files = input_files, !.out = output_file]

\* ffmpeg's output pattern frame_%04d.png for frame number n.
DigitChar(d) == CASE d = 0 -> "0" [] d = 1 -> "1" [] d = 2 -> "2" [] d = 3 -> "3"
                  [] d = 4 -> "4" [] d = 5 -> "5" [] d = 6 -> "6" [] d = 7 -> "7"
                  [] d = 8 -> "8" [] d = 9 -> "9"

RECURSIVE Decimal(_)
Decimal(n) == IF n < 10 THEN <<DigitChar(n)>>
              ELSE Decimal(n \div 10) \o <<DigitChar(n % 10)>>

RECURSIVE ZeroPad(_, _)
ZeroPad(s, width) == IF Len(s) >= width THEN s ELSE ZeroPad(<<"0">> \o s, width)

FrameName(n) ==
    <<"f", "r", "a", "m", "e", "_">> \o ZeroPad(Decimal(n), 4)
    \o <<".", "p", "n", "g">>

\* The order of characters, and of strings, that sorted() uses.
CharRank(c) ==
    CASE c = "." -> 46 [] c = "/" -> 47 [] c \in Digits -> 48 + (CHOOSE d \in 0..9 : DigitChar(d) = c)
      [] c = "_" -> 95 [] c = "a" -> 97 [] c = "e" -> 101 [] c = "f" -> 102
      [] c = "g" -> 103 [] c = "m" -> 109 [] c = "n" -> 110 [] c = "p" -> 112
      [] c = "r" -> 114 [] OTHER -> 120

RECURSIVE StrLeq(_, _)
StrLeq(a, b) ==
    IF a = <<>> THEN TRUE
    ELSE IF b = <<>> THEN FALSE
    ELSE IF Head(a) = Head(b) THEN StrLeq(Tail(a), Tail(b))
    ELSE CharRank(Head(a)) < CharRank(Head(b))

RECURSIVE sorted(_)
sorted(S) ==
    IF S = {} THEN <<>>
    ELSE LET m == CHOOSE x \in S : \A y \in S : StrLeq(x, y)
         IN  <<m>> \o sorted(S \ {m})

\* ------------------------------------------------------------------ state
VARIABLES
    helper_defined,  \* whether the name get_video_duration resolves
    source,          \* sys.argv[1:]
    pc,              \* where main() is
    png_folders,     \* main's local png_folders (Unbound until assigned)
    folder_idx,      \* position of the frame-folder loop
    subtitle_file,   \* the paired subtitle, or None
    video_files,     \* the videos of the video branch
    video_idx,       \* position of the video loop
    start_time,      \* the start time the user gave, or None
    end_time,        \* the end time the user gave, or None
    temp_folder,     \* the current video's temporary directory, or None
    tmpfs,           \* the temporary directories that exist, with their files
    tmp_made,        \* how many temporary directories were created so far
    output_gif_name, \* the current video's output name
    duration,        \* the duration the probe reported
    events,          \* the external effects of the run, in order
    outcome,         \* running | done | error (uncaught exception) | exit
    tin,             \* time code utilities: the string under test
    tin2,            \* time code utilities: a second argument
    tpc,             \* time code utilities: typed | reprompt | done
    tout             \* time code utilities: the last result

pvars == <<helper_defined, source, pc, png_folders, folder_idx, subtitle_file, video_files,
           video_idx, start_time, end_time, temp_folder, tmpfs, tmp_made,
           output_gif_name, duration, events, outcome>>
tvars == <<tin, tin2, tpc, tout>>
vars == <<helper_defined, source, pc, png_folders, folder_idx, subtitle_file, video_files,
          video_idx, start_time, end_time, temp_folder, tmpfs, tmp_made,
          output_gif_name, duration, events, outcome, tin, tin2, tpc, tout>>

Unbound == <<"Unbound">>

\* What the user can type at a time prompt: nothing, two valid time codes,
\* the tool's own 3-group form, and a time code with a trailing character.
TimeA == <<"0", ":", "0", ":", "1", ":", "0">>
TimeB == <<"0", "0", ":", "0", ":", "3", ":", "5", "0", "0">>
TimeInputs == {<<>>, TimeA, TimeB,
               <<"0", ":", "0", ":", "1", ".", "0">>,
               <<"0", ":", "0", ":", "1", ":", "0", "x">>}

\* What the probe can report: a failure (-1), or a duration in seconds.
ProbeResults == {-1, 10, 15, 16, 20}

\* How a subprocess.run of gifski can end: exit status 0, a non-zero exit
\* status (not inspected), or an OSError raised by the call itself.
EncodeOutcomes == {"ok", "fail", "raise"}

\* How a subprocess.run of ffmpeg can end: OSError (-1), or n frames written,
\* n small or the number of a long extraction.
ExtractOutcomes == ((-1)..MaxFrames) \cup {LongFrames}

\* The same for a video the guard let through: at most 15 seconds of video
\* make no long extraction.
ShortExtractOutcomes == (-1)..MaxFrames

\* The sequences of distinct paths of length 1..MaxArgs.
RECURSIVE ArgLists(_)
ArgLists(n) ==
    IF n = 0 THEN {<<>>}
    ELSE LET shorter == ArgLists(n - 1)
         IN  shorter \cup
             {Append(l, p) : l \in {x \in shorter : Len(x) = n - 1},
                             p \in ArgPaths}

Distinct(l) == \A i, j \in 1..Len(l) : i # j => l[i] # l[j]

\* Each branch of main() filters the argument list by kind and keeps the order
\* within the kind, so the lists are taken with the kinds in one order
\* (directories, images, videos, subtitles, others) and any order within.
ArgGroup(p) ==
    CASE p \in {DirC, DirCSlash, DirE, DirSrt} -> 1
      [] p \in {ImgX, ImgY} -> 2
      [] p \in {VidA, VidB} -> 3
      [] p \in {SubA, SubB} -> 4
      [] OTHER -> 5

Grouped(l) == \A i, j \in 1..Len(l) : i < j => ArgGroup(l[i]) <= ArgGroup(l[j])

Sources == {l \in ArgLists(MaxArgs) : Len(l) >= 1 /\ Distinct(l) /\ Grouped(l)}

\* The strings the time code utilities are tried on: every string of at most
\* MaxLen characters over a digit, the colon and a letter, and the strings of
\* four groups of digits (0..3, 1..2, 0..3 and 0..4), each with either separator
\* last, alone or with a leading or trailing character.
TimeAlphabet == {"1", ":", "x"}

RECURSIVE Strings(_)
Strings(n) ==
    IF n = 0 THEN {<<>>}
    ELSE LET shorter == Strings(n - 1)
         IN  shorter \cup
             {Append(t, c) : t \in {x \in shorter : Len(x) = n - 1},
                             c \in TimeAlphabet}

Run(n) == [i \in 1..n |-> "0"]

Shaped ==
    {lead \o Run(a) \o <<":">> \o Run(b) \o <<":">> \o Run(c) \o last
          \o Run(d) \o trail :
        a \in 0..3, b \in 1..2, c \in 0..3, d \in 0..4,
        last \in {<<":">>, <<".">>},
        lead \in {<<>>, <<" ">>}, trail \in {<<>>, <<"x">>, <<":">>}}

TimeStrings == Strings(MaxLen) \cup Shaped \cup TimeInputs

TimeIdle == /\ tin = <<>> /\ tin2 = None /\ tpc = "idle"
            /\ tout = [op |-> "", ok |-> FALSE, str |-> None]

PipelineStart ==
    /\ pc = "start"
    /\ png_folders = Unbound
    /\ folder_idx = 1
    /\ subtitle_file = None
    /\ video_files = <<>>
    /\ video_idx = 1
    /\ start_time = None
    /\ end_time = None
    /\ temp_folder = None
    /\ tmpfs = [d \in {} |-> {}]
    /\ tmp_made = 0
    /\ output_gif_name = Unbound
    /\ duration = 0
    /\ events = <<>>
    /\ outcome = "running"

\* After args_checker accepted the arguments (lines 718-725); the module is
\* the file as it is, which defines no get_video_duration.
Init ==
    /\ helper_defined = FALSE
    /\ source \in Sources
    /\ PipelineStart
    /\ TimeIdle

\* The same, with the file completed with the helper that line 849 calls.
InitHelper ==
    /\ helper_defined = TRUE
    /\ source \in Sources
    /\ PipelineStart
    /\ TimeIdle

\* ---------------------------------------------------------------- main()
\* Whether a call of the global name finds a function.
Resolves(name) == IF NameDefined(name) THEN TRUE ELSE helper_defined

TmpName(k) == <<"T">> \o Decimal(k)

CleanupKeeps(fs, folder) == fs

\* Leaving the with block of line 820: TemporaryDirectory removes the folder.
Cleanup(fs, folder) == [d \in (DOMAIN fs) \ {folder} |-> fs[d]]

\* An exception leaves the video loop: the with block removes the temporary
\* directory, `except Exception: raise` re-raises and the run ends (818-882).
VideoFails(log, exc) ==
    /\ tmpfs' = Cleanup(tmpfs, temp_folder)
    /\ temp_folder' = None
    /\ events' = log \o <<Event("rmtree", temp_folder),
                          [Event("uncaught", video_files[video_idx])
                              EXCEPT !.exc = exc]>>
    /\ outcome' = "error"
    /\ pc' = "end"

\* Lines 735-747: the directories among the arguments and, if there is one,
\* the three prompts and the folders with images.
Classify ==
    /\ pc = "start"
    /\ LET directories == SelectSeq(source, os_path_isdir)
       IN  png_folders' = IF Len(directories) > 0
                          THEN find_png_folders(directories)
                          ELSE Unbound
    /\ folder_idx' = 1
    /\ pc' = "folders"
    /\ UNCHANGED <<helper_defined, source, subtitle_file, video_files, video_idx, start_time,
                   end_time, temp_folder, tmpfs, tmp_made, output_gif_name,
                   duration, events, outcome>>
    /\ UNCHANGED tvars

FolderBranchUnboundUncaught ==
    /\ pc = "folders"
    /\ png_folders = Unbound
    /\ events' = Append(events,
                        [Event("uncaught", None) EXCEPT !.exc = "UnboundLocalError"])
    /\ pc' = "end"
    /\ outcome' = "error"
    /\ UNCHANGED <<helper_defined, source, png_folders, folder_idx, subtitle_file, video_files,
                   video_idx, start_time, end_time, temp_folder, tmpfs,
                   tmp_made, output_gif_name, duration>>
    /\ UNCHANGED tvars

\* Lines 750-752 and 769-770 with no directory given: png_folders was never
\* assigned, the print raises UnboundLocalError, which the except swallows.
FolderBranchUnbound ==
    /\ pc = "folders"
    /\ png_folders = Unbound
    /\ events' = Append(events,
                        [Event("suppressed", None) EXCEPT !.exc = "UnboundLocalError"])
    /\ pc' = "images"
    /\ UNCHANGED <<helper_defined, source, png_folders, folder_idx, subtitle_file, video_files,
                   video_idx, start_time, end_time, temp_folder, tmpfs,
                   tmp_made, output_gif_name, duration, outcome>>
    /\ UNCHANGED tvars

\* Lines 753-768: one folder of the loop: its images, its output name and the
\* encode; an exception of the encode ends the branch (769-770).
FolderEncode(r) ==
    /\ pc = "folders"
    /\ png_folders # Unbound
    /\ folder_idx <= Len(png_folders)
    /\ LET png_folder == png_folders[folder_idx]
           listed == SelectSeq(os_listdir(png_folder), is_image)
           png_files == [i \in 1..Len(listed) |-> os_path_join(png_folder, listed[i])]
           base_name == os_path_basename(png_folder)
           output_file == os_path_join(desktop, base_name \o <<".", "g", "i", "f">>)
           call == [convert_to_gif(png_files, output_file)
                       EXCEPT !.path = png_folder, !.mode = "folder"]
       IN  IF r = "raise"
           THEN /\ events' = events \o
                       <<call, [Event("suppressed", None) EXCEPT !.exc = "OSError"]>>
                /\ pc' = "images"
                /\ folder_idx' = folder_idx
           ELSE /\ events' = Append(events, call)
                /\ pc' = pc
                /\ folder_idx' = folder_idx + 1
    /\ UNCHANGED <<helper_defined, source, png_folders, subtitle_file, video_files, video_idx,
                   start_time, end_time, temp_folder, tmpfs, tmp_made,
                   output_gif_name, duration, outcome>>
    /\ UNCHANGED tvars

\* The folder loop is exhausted.
FolderBranchDone ==
    /\ pc = "folders"
    /\ png_folders # Unbound
    /\ folder_idx > Len(png_folders)
    /\ pc' = "images"
    /\ UNCHANGED <<helper_defined, source, png_folders, folder_idx, subtitle_file, video_files,
                   video_idx, start_time, end_time, temp_folder, tmpfs,
                   tmp_made, output_gif_name, duration, events, outcome>>
    /\ UNCHANGED tvars

\* Lines 775-788: the loose images, encoded in the order given as output.gif.
ImagesBranch(r) ==
    /\ pc = "images"
    /\ LET image_files == SelectSeq(source, is_image)
           output_file == os_path_join(desktop,
                              <<"o", "u", "t", "p", "u", "t", ".", "g", "i", "f">>)
           call == [convert_to_gif(image_files, output_file) EXCEPT !.mode = "images"]
       IN  events' = IF image_files = <<>> THEN events
                     ELSE IF r = "raise"
                     THEN events \o <<call,
                              [Event("suppressed", None) EXCEPT !.exc = "OSError"]>>
                     ELSE Append(events, call)
    /\ pc' = "videos"
    /\ UNCHANGED <<helper_defined, source, png_folders, folder_idx, subtitle_file, video_files,
                   video_idx, start_time, end_time, temp_folder, tmpfs,
                   tmp_made, output_gif_name, duration, outcome>>
    /\ UNCHANGED tvars

\* The last subtitle among the arguments (the loop of lines 797-799).
LastSubtitle(files) ==
    LET subs == SelectSeq(files, is_subtitle)
    IN  IF subs = <<>> THEN None ELSE subs[Len(subs)]

VideoSetupAlwaysAsks ==
    /\ pc = "videos"
    /\ subtitle_file' = IF contains_single_video_and_subtitle(source)
                        THEN LastSubtitle(source) ELSE None
    /\ video_files' = SelectSeq(source, is_video)
    /\ video_idx' = 1
    /\ start_time' = None
    /\ end_time' = None
    /\ IF video_files' = <<>>
       THEN pc' = "end" /\ outcome' = "done"
       ELSE pc' = "ask_start" /\ outcome' = outcome
    /\ UNCHANGED <<helper_defined, source, png_folders, folder_idx, temp_folder,
                   tmpfs, tmp_made, output_gif_name, duration, events>>
    /\ UNCHANGED tvars

\* Lines 794-811: subtitle pairing, the videos, the three prompts.
VideoSetup ==
    /\ pc = "videos"
    /\ subtitle_file' = IF contains_single_video_and_subtitle(source)
                        THEN LastSubtitle(source) ELSE None
    /\ video_files' = SelectSeq(source, is_video)
    /\ video_idx' = 1
    /\ start_time' = None
    /\ end_time' = None
    /\ IF video_files' = <<>>
       THEN pc' = "end" /\ outcome' = "done"
       ELSE /\ pc' = IF Len(video_files') = 1 THEN "ask_start" ELSE "loop"
            /\ outcome' = outcome
    /\ UNCHANGED <<helper_defined, source, png_folders, folder_idx, temp_folder, tmpfs,
                   tmp_made, output_gif_name, duration, events>>
    /\ UNCHANGED tvars

\* Line 814: one line typed at the start-time prompt.
AskStart(typed) ==
    /\ pc = "ask_start"
    /\ LET got == get_start_time(typed)
       IN  IF got.returned
           THEN /\ start_time' = got.val
                /\ pc' = IF Truthy(got.val) THEN "ask_end" ELSE "loop"
           ELSE /\ start_time' = start_time
                /\ pc' = pc
    /\ UNCHANGED <<helper_defined, source, png_folders, folder_idx, subtitle_file, video_files,
                   video_idx, end_time, temp_folder, tmpfs, tmp_made,
                   output_gif_name, duration, events, outcome>>
    /\ UNCHANGED tvars

\* Line 815: one line typed at the end-time prompt.
AskEnd(typed) ==
    /\ pc = "ask_end"
    /\ LET got == get_end_time(typed)
       IN  IF got.returned
           THEN end_time' = got.val /\ pc' = "loop"
           ELSE end_time' = end_time /\ pc' = pc
    /\ UNCHANGED <<helper_defined, source, png_folders, folder_idx, subtitle_file, video_files,
                   video_idx, start_time, temp_folder, tmpfs, tmp_made,
                   output_gif_name, duration, events, outcome>>
    /\ UNCHANGED tvars

\* Line 818 with the loop exhausted: main() returns.
VideosDone ==
    /\ pc = "loop"
    /\ video_idx > Len(video_files)
    /\ pc' = "end"
    /\ outcome' = "done"
    /\ UNCHANGED <<helper_defined, source, png_folders, folder_idx, subtitle_file, video_files,
                   video_idx, start_time, end_time, temp_folder, tmpfs,
                   tmp_made, output_gif_name, duration, events>>
    /\ UNCHANGED tvars

\* Lines 818-822: the next video gets a new temporary directory.
EnterVideo ==
    /\ pc = "loop"
    /\ video_idx <= Len(video_files)
    /\ tmp_made' = tmp_made + 1
    /\ temp_folder' = TmpName(tmp_made')
    /\ tmpfs' = (temp_folder' :> {}) @@ tmpfs
    /\ events' = Append(events, Event("mkdtemp", temp_folder'))
    /\ pc' = IF start_time # None THEN "name" ELSE "probe"
    /\ UNCHANGED <<helper_defined, source, png_folders, folder_idx, subtitle_file, video_files,
                   video_idx, start_time, end_time, output_gif_name, duration,
                   outcome>>
    /\ UNCHANGED tvars

\* Lines 825-829: the output name of a trimmed video.
NameTrimmed ==
    /\ pc = "name"
    /\ LET timecode == make_smpte_filename_safe(start_time, end_time)
           base_name == os_path_basename(video_files[video_idx])
           name_without_ext == splitext_root(base_name)
       IN  IF timecode.exc # ""
           THEN /\ VideoFails(events, timecode.exc)
                /\ output_gif_name' = output_gif_name
           ELSE /\ output_gif_name' = name_without_ext \o <<" ", "-", " ">>
                                      \o timecode.val \o <<".", "g", "i", "f">>
                /\ pc' = "extract"
                /\ UNCHANGED <<temp_folder, tmpfs, events, outcome>>
    /\ UNCHANGED <<helper_defined, source, png_folders, folder_idx, subtitle_file, video_files,
                   video_idx, start_time, end_time, tmp_made, duration>>
    /\ UNCHANGED tvars

\* The frame files an extraction that wrote n frames leaves in the folder. Of
\* a long extraction the first file and the last two are followed: sorted()
\* puts the files of any part of a listing in the order it gives them in the
\* whole listing.
Frames(n) ==
    IF n <= MaxFrames THEN {FrameName(i) : i \in 1..n}
    ELSE {FrameName(i) : i \in {1, n - 1, n}}

\* Lines 831-838: the extraction of a trimmed video, with or without the
\* subtitle; n is how the ffmpeg call ends.
ExtractTrimmed(n) ==
    /\ pc = "extract"
    /\ LET video == video_files[video_idx]
           call == [extract_frames_with_ffmpeg(video, get_output_fps, temp_folder,
                        start_time, end_time,
                        IF subtitle_file # None THEN subtitle_file ELSE None)
                       EXCEPT !.mode = "trimmed"]
       IN  IF n < 0
           THEN VideoFails(Append(events, call), "OSError")
           ELSE /\ events' = Append(events, call)
                /\ tmpfs' = [tmpfs EXCEPT ![temp_folder] = Frames(n)]
                /\ pc' = "encode"
                /\ UNCHANGED <<temp_folder, outcome>>
    /\ UNCHANGED <<helper_defined, source, png_folders, folder_idx, subtitle_file, video_files,
                   video_idx, start_time, end_time, tmp_made, output_gif_name,
                   duration>>
    /\ UNCHANGED tvars

ProbeSkipsFailed(d) ==
    /\ pc = "probe"
    /\ LET call == [Event("probe", video_files[video_idx]) EXCEPT !.res = d]
       IN  IF d < 0
           THEN /\ events' = events \o <<call, Event("rmtree", temp_folder)>>
                /\ tmpfs' = Cleanup(tmpfs, temp_folder)
                /\ temp_folder' = None
                /\ video_idx' = video_idx + 1
                /\ pc' = "loop"
                /\ UNCHANGED <<duration, outcome>>
           ELSE /\ events' = Append(events, call)
                /\ duration' = d
                /\ pc' = "guard"
                /\ UNCHANGED <<temp_folder, tmpfs, outcome, video_idx>>
    /\ UNCHANGED <<helper_defined, source, png_folders, folder_idx, subtitle_file,
                   video_files, start_time, end_time, tmp_made, output_gif_name>>
    /\ UNCHANGED tvars

\* Lines 845-848: the probe and the duration it reports; a failed probe or a
\* missing duration raises.
Probe(d) ==
    /\ pc = "probe"
    /\ LET call == [Event("probe", video_files[video_idx]) EXCEPT !.res = d]
       IN  IF d < 0
           THEN /\ VideoFails(Append(events, call), "ProbeError")
                /\ duration' = duration
           ELSE /\ events' = Append(events, call)
                /\ duration' = d
                /\ pc' = "guard"
                /\ UNCHANGED <<temp_folder, tmpfs, outcome>>
    /\ UNCHANGED <<helper_defined, source, png_folders, folder_idx, subtitle_file, video_files,
                   video_idx, start_time, end_time, tmp_made, output_gif_name>>
    /\ UNCHANGED tvars

\* Lines 849-868: the call of get_video_duration, then the guard: over 15
\* seconds the notice and exit(), else the untrimmed extraction (the subtitle,
\* when paired, is passed as the fourth positional argument) and the name.
Guard(n) ==
    /\ pc = "guard"
    /\ LET video == video_files[video_idx]
           call == [(IF subtitle_file # None
                     THEN extract_frames_with_ffmpeg(video, get_output_fps,
                              temp_folder, subtitle_file, None, None)
                     ELSE extract_frames_with_ffmpeg(video, get_output_fps,
                              temp_folder, None, None, None))
                       EXCEPT !.mode = "untrimmed"]
       IN  IF ~Resolves("get_video_duration")
           THEN /\ VideoFails(events, "NameError")
                /\ output_gif_name' = output_gif_name
           ELSE IF get_video_duration(duration) > 15
           THEN /\ tmpfs' = Cleanup(tmpfs, temp_folder)
                /\ temp_folder' = None
                /\ events' = events \o <<Event("notice", video),
                                         Event("rmtree", temp_folder)>>
                /\ outcome' = "exit"
                /\ pc' = "end"
                /\ output_gif_name' = output_gif_name
           ELSE IF n < 0
           THEN /\ VideoFails(Append(events, call), "OSError")
                /\ output_gif_name' = output_gif_name
           ELSE /\ events' = Append(events, call)
                /\ tmpfs' = [tmpfs EXCEPT ![temp_folder] = Frames(n)]
                /\ output_gif_name' = splitext_root(os_path_basename(video))
                                      \o <<".", "g", "i", "f">>
                /\ pc' = "encode"
                /\ UNCHANGED <<temp_folder, outcome>>
    /\ UNCHANGED <<helper_defined, source, png_folders, folder_idx, subtitle_file, video_files,
                   video_idx, start_time, end_time, tmp_made, duration>>
    /\ UNCHANGED tvars

\* Lines 870-880 and the end of the with block: the frame files in sorted
\* order, the encode, the removal of the temporary directory.
EncodeVideo(r) ==
    /\ pc = "encode"
    /\ LET video == video_files[video_idx]
           listed == SelectSeq(sorted(tmpfs[temp_folder]), is_image)
           frames == [i \in 1..Len(listed) |-> os_path_join(temp_folder, listed[i])]
           output_file == os_path_join(desktop, output_gif_name)
           call == [convert_to_gif(frames, output_file)
                       EXCEPT !.path = video,
                              !.mode = IF start_time # None THEN "trimmed"
                                       ELSE "untrimmed"]
       IN  IF r = "raise"
           THEN /\ VideoFails(Append(events, call), "OSError")
                /\ video_idx' = video_idx
           ELSE /\ events' = events \o <<call, Event("rmtree", temp_folder)>>
                /\ tmpfs' = Cleanup(tmpfs, temp_folder)
                /\ temp_folder' = None
                /\ video_idx' = video_idx + 1
                /\ pc' = "loop"
                /\ outcome' = outcome
    /\ UNCHANGED <<helper_defined, source, png_folders, folder_idx, subtitle_file, video_files,
                   start_time, end_time, tmp_made, output_gif_name, duration>>
    /\ UNCHANGED tvars

Next ==
    \/ Classify
    \/ FolderBranchUnbound
    \/ \E r \in EncodeOutcomes : FolderEncode(r)
    \/ FolderBranchDone
    \/ \E r \in EncodeOutcomes : ImagesBranch(r)
    \/ VideoSetup
    \/ \E typed \in TimeInputs : AskStart(typed)
    \/ \E typed \in TimeInputs : AskEnd(typed)
    \/ VideosDone
    \/ EnterVideo
    \/ NameTrimmed
    \/ \E n \in ExtractOutcomes : ExtractTrimmed(n)
    \/ \E d \in ProbeResults : Probe(d)
    \/ \E n \in ShortExtractOutcomes : Guard(n)
    \/ \E r \in EncodeOutcomes : EncodeVideo(r)

Spec == Init /\ [][Next]_vars

SpecHelper == InitHelper /\ [][Next]_vars

\* ------------------------------------- the time code utilities on their own
\* A string is typed (any of TimeStrings) and one of the utilities is applied
\* to it; the pipeline's variables stay as main() starts with them.
PipelineIdle == helper_defined = FALSE /\ source = <<>> /\ PipelineStart

Result(op, ok, str) == [op |-> op, ok |-> ok, str |-> str]

InitTime ==
    /\ PipelineIdle
    /\ tin \in TimeStrings
    /\ tin2 \in {None, TimeA, TimeB}
    /\ tpc = "typed"
    /\ tout = Result("", FALSE, None)

ApplyValidate ==
    /\ tpc = "typed"
    /\ tout' = Result("validate", validate_time_format(tin), None)
    /\ tpc' = "done"
    /\ UNCHANGED <<tin, tin2>>
    /\ UNCHANGED pvars

ApplyConvert ==
    /\ tpc = "typed"
    /\ tout' = Result("convert", TRUE, convert_time_format(tin))
    /\ tpc' = "done"
    /\ UNCHANGED <<tin, tin2>>
    /\ UNCHANGED pvars

\* make_smpte_filename_safe on a start time that passed the prompt and an end
\* time that is None or passed the prompt, as main() calls it.
ApplyFragment ==
    /\ tpc = "typed"
    /\ validate_time_format(tin)
    /\ LET r == make_smpte_filename_safe(tin, tin2)
       IN  tout' = Result("fragment", r.exc = "", r.val)
    /\ tpc' = "done"
    /\ UNCHANGED <<tin, tin2>>
    /\ UNCHANGED pvars

\* One iteration of the prompt loop on the typed line.
ApplyPrompt ==
    /\ tpc = "typed"
    /\ LET got == get_start_time(tin)
       IN  IF got.returned
           THEN tout' = Result("prompt", TRUE, got.val) /\ tpc' = "done"
           ELSE tout' = tout /\ tpc' = "reprompt"
    /\ UNCHANGED <<tin, tin2>>
    /\ UNCHANGED pvars

\* "Invalid input. Please try again.": the user types another line.
Retype(typed) ==
    /\ tpc = "reprompt"
    /\ tin' = typed
    /\ tpc' = "typed"
    /\ UNCHANGED <<tin2, tout>>
    /\ UNCHANGED pvars

NextTime ==
    \/ ApplyValidate
    \/ ApplyConvert
    \/ ApplyFragment
    \/ ApplyPrompt
    \/ \E typed \in TimeInputs : Retype(typed)

SpecTime == InitTime /\ [][NextTime]_vars

\* ------------------------------------------------ vocabulary of the claims
EventsOf(ev, path) ==
    {i \in 1..Len(events) : events[i].ev = ev /\ events[i].path = path}

Raises(exc) ==
    \E i \in 1..Len(events) : events[i].ev = "uncaught" /\ events[i].exc = exc

\* The k-th video is being processed: it has its temporary directory.
InVideo == pc \in {"name", "extract", "probe", "guard", "encode"}

\* The processing of the k-th video was entered.
Started(k) ==
    /\ k \in 1..Len(video_files)
    /\ \/ k < video_idx
       \/ k = video_idx /\ (InVideo \/ (pc = "end" /\ outcome # "done"))

\* The processing of the k-th video has ended, in whatever way.
Ended(k) ==
    /\ k \in 1..Len(video_files)
    /\ \/ k < video_idx
       \/ k = video_idx /\ pc = "end" /\ outcome # "done"

Gif == <<".", "g", "i", "f">>

\* A video's name without its three-letter extension.
Stem(v) == SubSeq(v, 1, Len(v) - 4)

NoColon(s) == SelectSeq(s, LAMBDA c : c # ":")

\* Four colon-separated groups of 1-2, 1-2, 1-2 and 1-3 digits, nothing else.
FourGroupShape(s) ==
    \E a, b, c \in 1..2, d \in 1..3 :
        /\ Len(s) = a + b + c + d + 3
        /\ \A i \in 1..Len(s) :
              IF i \in {a + 1, a + b + 2, a + b + c + 3}
              THEN s[i] = ":" ELSE s[i] \in Digits

\* out is s with its last colon, and nothing else, turned into a period.
LastColonReplaced(s, out) ==
    /\ Len(out) = Len(s)
    /\ \A i \in 1..Len(s) :
          out[i] = IF s[i] = ":" /\ (\A j \in (i + 1)..Len(s) : s[j] # ":")
                   THEN "." ELSE s[i]

NumColons(s) == Cardinality({i \in 1..Len(s) : s[i] = ":"})

\* --------------------------------------------------------------- the claims
\* C1: once the processing of a video with no start time set whose probed
\* duration exceeds 15 seconds has ended, the notice was shown for that video
\* and neither the extraction nor the encode was invoked for it.
C1_GuardAbortsWithNotice ==
    \A k \in 1..Len(video_files) :
        LET v == video_files[k]
        IN  (/\ Ended(k)
             /\ start_time = None
             /\ \E i \in EventsOf("probe", v) : events[i].res > 15)
            => /\ EventsOf("notice", v) # {}
               /\ EventsOf("extract", v) = {}
               /\ EventsOf("encode", v) = {}

\* C2: once the processing of a video with no start time set, whose probe
\* reported a duration of at most 15 seconds, has ended without a tool failing
\* to launch, the log holds in this order its probe, its extraction with
\* neither start nor end, and its encode to <desktop>/<video base name>.gif.
C2_ShortVideoProbeExtractEncode ==
    \A k \in 1..Len(video_files) :
        LET v == video_files[k]
        IN  (/\ Ended(k)
             /\ start_time = None
             /\ ~Raises("OSError")
             /\ \E i \in EventsOf("probe", v) :
                    events[i].res >= 0 /\ events[i].res <= 15)
            => \E i \in EventsOf("probe", v), j \in EventsOf("extract", v),
                  l \in EventsOf("encode", v) :
                   /\ i < j /\ j < l
                   /\ events[j].ss = None /\ events[j].to = None
                   /\ events[l].out = desktop \o <<"/">> \o Stem(v) \o Gif

\* C3: once the processing of a video with a start time set has ended, the
\* probe was never invoked for it and its extraction was invoked.
C3_StartSetBypassesGuard ==
    \A k \in 1..Len(video_files) :
        LET v == video_files[k]
        IN  (Ended(k) /\ start_time # None)
            => /\ EventsOf("probe", v) = {}
               /\ EventsOf("extract", v) # {}

\* C4: every video entered got a temporary directory of its own, never used
\* before; while a video is processed exactly its directory exists; between
\* videos and once the run has ended (normally, by an exception or by the
\* guard's exit) no temporary directory exists.
C4_TempDirLifetime ==
    LET made == {i \in 1..Len(events) : events[i].ev = "mkdtemp"}
    IN  /\ Cardinality(DOMAIN tmpfs) <= 1
        /\ \A i, j \in made : i # j => events[i].path # events[j].path
        /\ Cardinality(made) = Cardinality({k \in 1..Len(video_files) : Started(k)})
        /\ InVideo => /\ DOMAIN tmpfs = {temp_folder}
                      /\ \E i \in made : /\ events[i].path = temp_folder
                                         /\ \A j \in made : j <= i
        /\ ~InVideo => DOMAIN tmpfs = {}

\* C4 witness: an encode raised, the run ended on it, and the directory the
\* video had is gone.
C4_Witness ==
    /\ pc = "end" /\ outcome = "error" /\ Raises("OSError")
    /\ \E i \in 1..Len(events) : events[i].ev = "encode" /\ events[i].mode = "trimmed"
    /\ tmp_made = 1 /\ DOMAIN tmpfs = {}

\* C5: once the processing of a single video with a start time set has ended
\* without a tool failing to launch, the log holds its extraction with that
\* start as seek position and with the end as cutoff exactly if the end is
\* set, followed by its encode.
C5_StartSetExtractsThenEncodes ==
    (/\ Len(video_files) = 1
     /\ Ended(1)
     /\ start_time # None
     /\ ~Raises("OSError"))
    => \E j \in EventsOf("extract", video_files[1]),
          l \in EventsOf("encode", video_files[1]) :
           /\ j < l
           /\ LastColonReplaced(start_time, events[j].ss)
           /\ IF end_time = None THEN events[j].to = None
              ELSE LastColonReplaced(end_time, events[j].to)

\* The name a folder goes by: its last component, a trailing separator aside.
FolderBaseName(p) ==
    LET q == Normal(p)
        cut == {i \in 1..Len(q) : q[i] = "/"}
    IN  IF cut = {} THEN q
        ELSE [i \in 1..(Len(q) - Max(cut)) |-> q[Max(cut) + i]]

\* C6: every encode writes to <desktop>/<name> with the name of its mode:
\* <folder base name>.gif, output.gif, <video base name>.gif, or
\* <video base name> - <start without colons>-<end without colons>.gif.
C6_OutputNames ==
    \A i \in 1..Len(events) :
        LET e == events[i]
        IN  e.ev = "encode" =>
              e.out = desktop \o <<"/">> \o
                (CASE e.mode = "folder" -> FolderBaseName(e.path) \o Gif
                   [] e.mode = "images" ->
                        <<"o", "u", "t", "p", "u", "t">> \o Gif
                   [] e.mode = "untrimmed" -> Stem(e.path) \o Gif
                   [] e.mode = "trimmed" ->
                        Stem(e.path) \o <<" ", "-", " ">> \o NoColon(start_time)
                        \o <<"-">> \o NoColon(end_time) \o Gif)

\* C7: validate_time_format accepts exactly the strings of the four-group
\* shape, and the prompt loop returns None or a string of that shape.
C7_ValidateExactly ==
    /\ tout.op = "validate" => (tout.ok <=> FourGroupShape(tin))
    /\ (tout.op = "prompt" /\ tout.str # None) => FourGroupShape(tout.str)

\* C7 witness: the longest time code, twelve characters, was accepted.
C7_Witness == tout.op = "validate" /\ tout.ok /\ Len(tin) = 12

\* C8 as stated: a string of the validated four-group shape gets its last
\* colon replaced by a period, every other string is returned unchanged.
C8_UnchangedUnlessValidated ==
    tout.op = "convert" =>
        IF FourGroupShape(tin) THEN LastColonReplaced(tin, tout.str)
        ELSE tout.str = tin

\* C8 amended: a string with exactly three colons (four colon-separated
\* segments, whatever they hold; every validated time code is one) gets its
\* last colon replaced by a period, every other string is returned unchanged.
C8_ConvertByColonCount ==
    /\ FourGroupShape(tin) => NumColons(tin) = 3
    /\ tout.op = "convert" =>
          IF NumColons(tin) = 3 THEN LastColonReplaced(tin, tout.str)
          ELSE tout.str = tin

\* C8 witness: a string that is no valid time code was converted and changed.
C8_Witness ==
    /\ tout.op = "convert" /\ ~FourGroupShape(tin) /\ tout.str # tin
    /\ \E i \in 1..Len(tin) : tin[i] = "x"

\* The arguments that are files, by what they are.
FlatFiles == {source[i] : i \in {j \in 1..Len(source) : source[j] \notin
                 {DirC, DirCSlash, DirE, DirSrt}}}
VideoFilesGiven == FlatFiles \cap {VidA, VidB}
SubtitleFilesGiven == FlatFiles \cap {SubA, SubB}

\* C9: once the video branch has resolved the pairing, a subtitle is paired
\* exactly if the file arguments hold one video file and one subtitle file.
C9_PairedIffOneVideoOneSubtitle ==
    pc \notin {"start", "folders", "images", "videos"} =>
        (subtitle_file # None
           <=> (/\ Cardinality(VideoFilesGiven) = 1
                /\ Cardinality(SubtitleFilesGiven) = 1))

\* C10: no encode is invoked with an empty frame list.
C10_EncodeNeverEmpty ==
    \A i \in 1..Len(events) :
        events[i].ev = "encode" => events[i].files # <<>>

\* C11: a step of the frame-folder branch or of the loose-images branch in
\* which an error is raised (none given, or the encode raising) leaves the run
\* running at the entry of the next branch (loose images after folders, videos
\* after loose images) with nothing changed that the later branches read; no
\* step of these two branches ends the run.
C11_BranchErrorsSuppressed ==
    [][LET raised == /\ Len(events') > Len(events)
                     /\ events'[Len(events')].ev = "suppressed"
       IN  /\ (pc = "folders" /\ raised) => pc' = "images"
           /\ (pc = "images" /\ raised) => pc' = "videos"
           /\ pc \in {"folders", "images"} =>
                /\ outcome' = "running"
                /\ pc' \in {"folders", "images", "videos"}
                /\ \A i \in 1..Len(events') : events'[i].ev # "uncaught"
                /\ UNCHANGED <<helper_defined, source, subtitle_file, video_files, video_idx,
                               start_time, end_time, temp_folder, tmpfs,
                               tmp_made, output_gif_name, duration>>]_vars

\* C11 witness: no directory was given, the folder branch failed on it, the
\* loose-images branch failed on its encode, and the video branch is running.
C11_Witness ==
    /\ \E i \in 1..Len(events) :
          events[i].ev = "suppressed" /\ events[i].exc = "UnboundLocalError"
    /\ \E i \in 1..Len(events) :
          events[i].ev = "suppressed" /\ events[i].exc = "OSError"
    /\ pc = "ask_start"
    /\ Len(video_files) = 1

\* The i-th event is a video's failure: a failed probe, an exception leaving
\* the video loop, or the notice of the duration guard before exit().
VideoStopped(i) ==
    \/ events[i].ev = "probe" /\ events[i].res < 0
    \/ events[i].ev \in {"uncaught", "notice"} /\ events[i].path # None

C12_WitnessProbe ==
    /\ Len(video_files) = 2
    /\ video_idx = 1
    /\ outcome = "error"
    /\ \E j \in EventsOf("probe", video_files[1]) : events[j].res < 0

C13_WitnessSingle ==
    /\ Cardinality(VideoFilesGiven) = 1
    /\ start_time # None
    /\ end_time # None
    /\ pc = "encode"

\* The directories among the arguments, and the names that are images.
DirectoriesGiven ==
    {Normal(source[i]) : i \in {j \in 1..Len(source) : source[j] \in
        {DirC, DirCSlash, DirE, DirSrt}}}
ImageNames == {Png1, Png2, Png3}

\* Folder d is root itself or lies anywhere below it.
Under(d, root) ==
    \/ d = root
    \/ Len(d) > Len(root) /\ SubSeq(d, 1, Len(root) + 1) = root \o <<"/">>

\* The folders at or below a given directory that directly hold an image.
FoldersWithImages ==
    {d \in DOMAIN Tree :
        /\ \E root \in DirectoriesGiven : Under(d, root)
        /\ \E i \in 1..Len(Tree[d].files) : Tree[d].files[i] \in ImageNames}

\* C14: whenever a directory was given, the folders the classifier returned
\* are exactly the folders at or below the given directories, at any depth,
\* that directly hold at least one image; a folder holding none is not
\* returned, whatever its subfolders hold.
C14_FoldersDirectlyHoldingImages ==
    png_folders # Unbound =>
        {Normal(png_folders[i]) : i \in 1..Len(png_folders)} = FoldersWithImages

\* C14 witness: directory e was given; it and e/t/s hold no image and are not
\* returned, e/t and e/t/s/t below them hold one and are.
C14_Witness ==
    /\ png_folders # Unbound
    /\ DirE \in DirectoriesGiven
    /\ LET got == {png_folders[i] : i \in 1..Len(png_folders)}
       IN  /\ <<"e", "/", "t">> \in got
           /\ <<"e", "/", "t", "/", "s", "/", "t">> \in got
           /\ <<"e">> \notin got
           /\ <<"e", "/", "t", "/", "s">> \notin got

\* C15: no directory among the arguments is ever treated as a loose image, a
\* video or a subtitle: none is the paired subtitle, none is in the list of
\* videos, none is a file of the loose-images encode.
C15_DirectoryNeverLooseFile ==
    /\ subtitle_file # None => Normal(subtitle_file) \notin DirectoriesGiven
    /\ \A i \in 1..Len(video_files) : Normal(video_files[i]) \notin DirectoriesGiven
    /\ \A i \in 1..Len(events) :
          (events[i].ev = "encode" /\ events[i].mode = "images") =>
              \A j \in 1..Len(events[i].files) :
                  Normal(events[i].files[j]) \notin DirectoriesGiven

RECURSIVE Number(_)
Number(s) ==
    IF s = <<>> THEN 0
    ELSE 10 * Number(SubSeq(s, 1, Len(s) - 1))
         + (CHOOSE d \in 0..9 : DigitChar(d) = s[Len(s)])

\* The sequence index in a frame file's path: the digits between the last
\* underscore and the extension.
FrameIndex(f) ==
    Number(SubSeq(f, Max(Indexes(f, "_")) + 1, Max(Indexes(f, ".")) - 1))

\* C17: the frame list every video encode is given is in strictly ascending
\* order of the frames' sequence indexes, for every number of frames written,
\* more than 9999 included.
C17_FrameListAscending ==
    \A i \in 1..Len(events) :
        (events[i].ev = "encode" /\ events[i].mode \in {"trimmed", "untrimmed"}) =>
            \A j \in 1..(Len(events[i].files) - 1) :
                FrameIndex(events[i].files[j]) < FrameIndex(events[i].files[j + 1])

====
